---- MODULE Spec2Model ----
(***************************************************************************)
(* A model of otu_proj/data_proc.py: main, parse_cmdline,                  *)
(* data_process_analysis and plot_data as one sequential state machine.    *)
(*                                                                         *)
(* Numbers are exact rationals [num, den] (den > 0); NaN is the record     *)
(* with den = 0.  The square root taken by DataFrame.std is modelled to    *)
(* three decimals (rounded down).  Row labels, paths and messages are      *)
(* strings, and the `in` tests of the source are real substring searches.  *)
(* The iteration order of a Python set is a nondeterministic choice.       *)
(***************************************************************************)
EXTENDS Integers, Sequences, FiniteSets, TLC

\* Longest input table (number of sample rows) that is explored.
MaxRows == 3

SUCCESS == 0
IO_ERROR == 2

DEF_DATA_FILE == "data/OTU_data.xlsx"

---------------------------------------------------------------------------
\* Arithmetic on exact rationals

Abs(n) == IF n < 0 THEN -n ELSE n

RECURSIVE GCD(_, _)
GCD(a, b) == IF b = 0 THEN a ELSE GCD(b, a % b)

Norm(n, d) == LET g == GCD(Abs(n), d) IN [num |-> n \div g, den |-> d \div g]

Q(n) == [num |-> n, den |-> 1]
NaN == [num |-> 0, den |-> 0]
IsNaN(a) == a.den = 0

RAdd(a, b) == Norm(a.num * b.den + b.num * a.den, a.den * b.den)
RSub(a, b) == Norm(a.num * b.den - b.num * a.den, a.den * b.den)
RMul(a, b) == Norm(a.num * b.num, a.den * b.den)
RDivInt(a, k) == Norm(a.num, a.den * k)

\* Largest s in lo..hi with s * s <= n (lo * lo <= n is given).
RECURSIVE ISqrtIn(_, _, _)
ISqrtIn(n, lo, hi) ==
    IF lo = hi THEN lo
    ELSE LET mid == (lo + hi + 1) \div 2
         IN IF mid * mid <= n THEN ISqrtIn(n, mid, hi) ELSE ISqrtIn(n, lo, mid - 1)

\* Square root of a rational >= 0, to three decimals, rounded down.
Sqrt(a) ==
    IF IsNaN(a) THEN NaN
    ELSE Norm(ISqrtIn((a.num * 1000000) \div a.den, 0, 40000), 1000)

Range(s) == {s[i] : i \in 1..Len(s)}

---------------------------------------------------------------------------
\* Strings

\* Python's `lit in s`.
Contains(lit, s) ==
    \E k \in 1..(Len(s) - Len(lit) + 1) : SubSeq(s, k, k + Len(lit) - 1) = lit

\* Last position of the one-character string ch in s, 0 when absent.
RFind(ch, s) ==
    LET at == {k \in 1..Len(s) : SubSeq(s, k, k) = ch}
    IN IF at = {} THEN 0 ELSE CHOOSE k \in at : \A m \in at : m <= k

basename(p) == SubSeq(p, RFind("/", p) + 1, Len(p))

\* os.path.splitext(p)[0], for a name without directories.
splitext_root(p) ==
    LET dot == RFind(".", p) IN IF dot <= 1 THEN p ELSE SubSeq(p, 1, dot - 1)

---------------------------------------------------------------------------
\* Data frames: [index, columns, values], values[i][c] the cell of row i, column c

Taxa == <<"Firmicutes", "Bacteroidetes", "Archaea">>

Frame(index, columns, values) == [index |-> index, columns |-> columns, values |-> values]

EmptyFrame(columns) == Frame(<<>>, columns, <<>>)

NoFrame == Frame(<<>>, <<>>, <<>>)

Column(df, c) == [i \in 1..Len(df.values) |-> df.values[i][c]]

\* Sample rows the input tables are built from: the rows of the scenario of the
\* specification, a medium row, a label matching two rules, a label with a group
\* word and no 'treated', and a second row of an already used label.
SampleRows ==
    { [label |-> "control_1", cells |-> <<Q(5), Q(10), Q(0)>>],
      [label |-> "control_2", cells |-> <<Q(7), Q(8), Q(0)>>],
      [label |-> "low_treated_1", cells |-> <<Q(2), Q(4), Q(0)>>],
      [label |-> "high_treated_1", cells |-> <<Q(9), Q(1), Q(0)>>],
      [label |-> "medium_treated_1", cells |-> <<Q(0), Q(3), Q(0)>>],
      [label |-> "low_control_treated", cells |-> <<Q(0), Q(0), Q(0)>>],
      [label |-> "high_2", cells |-> <<Q(0), Q(6), Q(0)>>],
      [label |-> "control_1", cells |-> <<Q(1), Q(0), Q(0)>>] }

Row(label, a, b, c) == [label |-> label, cells |-> <<Q(a), Q(b), Q(c)>>]

\* The table of the scenario of the specification (no medium row), with a third,
\* all-zero column.
Scenario ==
    << Row("control_1", 5, 10, 0), Row("control_2", 7, 8, 0),
       Row("low_treated_1", 2, 4, 0), Row("high_treated_1", 9, 1, 0) >>

\* The same with a medium row: every group has a sample.
FullTable == Append(Scenario, Row("medium_treated_1", 0, 3, 0))

\* The input tables: every table of up to MaxRows sample rows, and the two above.
Tables == UNION {[1..n -> SampleRows] : n \in 0..MaxRows} \cup {Scenario, FullTable}

\* pd.read_excel(path, index_col=0) of a sheet holding the rows t.
read_excel(t) ==
    Frame([i \in 1..Len(t) |-> t[i].label], Taxa, [i \in 1..Len(t) |-> t[i].cells])

---------------------------------------------------------------------------
\* pandas operations used by data_process_analysis

Indices(n) == [i \in 1..n |-> i]

\* A faulty variant of DropZeroColumns, .all(axis=0) for .any(axis=0): a column is
\* kept only when none of its cells is zero.
DropColumnsWithAZero(df) ==
    LET kept == SelectSeq(Indices(Len(df.columns)),
                          LAMBDA c : \A i \in 1..Len(df.values) : df.values[i][c] # Q(0))
    IN Frame(df.index,
             [k \in 1..Len(kept) |-> df.columns[kept[k]]],
             [i \in 1..Len(df.values) |-> [k \in 1..Len(kept) |-> df.values[i][kept[k]]]])

\* data_frame.loc[:, (data_frame != 0).any(axis=0)]
DropZeroColumns(df) ==
    LET kept == SelectSeq(Indices(Len(df.columns)),
                          LAMBDA c : \E i \in 1..Len(df.values) : df.values[i][c] # Q(0))
    IN Frame(df.index,
             [k \in 1..Len(kept) |-> df.columns[kept[k]]],
             [i \in 1..Len(df.values) |-> [k \in 1..Len(kept) |-> df.values[i][kept[k]]]])

\* The branch of the if/elif chain a row label takes.
Branch(label) ==
    IF Contains("control", label) THEN "control"
    ELSE IF Contains("low", label) /\ Contains("treated", label) THEN "low"
    ELSE IF Contains("medium", label) /\ Contains("treated", label) THEN "medium"
    ELSE IF Contains("high", label) /\ Contains("treated", label) THEN "high"
    ELSE "none"

EmptyLists == [control |-> <<>>, low |-> <<>>, medium |-> <<>>, high |-> <<>>]

\* A faulty variant of AddLabel, four separate ifs for the if/elif chain: the
\* label is appended to the list of every rule it matches.
AddLabelEveryMatch(lists, label) ==
    LET treated == Contains("treated", label)
        l1 == IF Contains("control", label)
              THEN [lists EXCEPT !.control = Append(@, label)] ELSE lists
        l2 == IF Contains("low", label) /\ treated
              THEN [l1 EXCEPT !.low = Append(@, label)] ELSE l1
        l3 == IF Contains("medium", label) /\ treated
              THEN [l2 EXCEPT !.medium = Append(@, label)] ELSE l2
    IN IF Contains("high", label) /\ treated
       THEN [l3 EXCEPT !.high = Append(@, label)] ELSE l3

\* One pass of the loop body: the label is appended to the list of its branch.
AddLabel(lists, label) ==
    LET b == Branch(label)
    IN IF b = "none" THEN lists ELSE [lists EXCEPT ![b] = Append(@, label)]

\* for j in range(0, data_frame.shape[1])
RECURSIVE InnerLoop(_, _, _, _)
InnerLoop(lists, label, j, ncols) ==
    IF j > ncols THEN lists
    ELSE InnerLoop(AddLabel(lists, label), label, j + 1, ncols)

\* for i in range(0, data_frame.shape[0])
RECURSIVE OuterLoop(_, _, _)
OuterLoop(lists, df, i) ==
    IF i > Len(df.index) THEN lists
    ELSE OuterLoop(InnerLoop(lists, df.index[i], 1, Len(df.columns)), df, i + 1)

\* groups = {'control': set(control_vals), ...}
MakeGroups(lists) ==
    [control |-> Range(lists.control), low |-> Range(lists.low),
     medium |-> Range(lists.medium), high |-> Range(lists.high)]

NoGroups == MakeGroups(EmptyLists)

\* A faulty variant of groups_list: the keys sorted, not in insertion order.
groups_sorted == <<"control", "high", "low", "medium">>

\* list(groups): the keys in insertion order.
groups_list == <<"control", "low", "medium", "high">>

\* The orders in which a set can be iterated.
Orders(S) == {f \in [1..Cardinality(S) -> S] : Range(f) = S}

\* Positions of the rows of an index carrying a label, in index order.
PositionsOf(index, key) == SelectSeq(Indices(Len(index)), LAMBDA i : index[i] = key)

RECURSIVE LocPositions(_, _, _)
LocPositions(index, keys, k) ==
    IF k > Len(keys) THEN <<>>
    ELSE PositionsOf(index, keys[k]) \o LocPositions(index, keys, k + 1)

\* A faulty variant of Loc: of the rows carrying a key, only the first is taken.
LocFirstOnly(df, keys) ==
    LET pos == [k \in 1..Len(keys) |-> PositionsOf(df.index, keys[k])[1]]
    IN Frame([p \in 1..Len(pos) |-> df.index[pos[p]]], df.columns,
             [p \in 1..Len(pos) |-> df.values[pos[p]]])

\* df.loc[keys] for a list-like of row labels: for each key in turn, every row
\* carrying it; no key gives the empty frame.
Loc(df, keys) ==
    LET pos == LocPositions(df.index, keys, 1)
    IN Frame([p \in 1..Len(pos) |-> df.index[pos[p]]], df.columns,
             [p \in 1..Len(pos) |-> df.values[pos[p]]])

\* A faulty variant of EnlargeRaises: a frame without rows raises as well.
RaisesOnEmptyFrame(df) == Len(df.columns) = 0 \/ Len(df.index) = 0

\* Setting a row with enlargement raises ValueError on a frame without columns.
EnlargeRaises(df) == Len(df.columns) = 0

\* df.loc[key] = row, for a key the index does not hold: the row is appended.
SetRow(df, key, row) == Frame(Append(df.index, key), df.columns, Append(df.values, row))

\* df.loc[key] for a key carried by one row.
RowOf(df, key) == df.values[CHOOSE i \in 1..Len(df.index) : df.index[i] = key]

NotNaN(vals) == SelectSeq(vals, LAMBDA v : ~IsNaN(v))

\* Sum of a sequence, in its order.
RECURSIVE Sum(_)
Sum(vals) == IF vals = <<>> THEN Q(0) ELSE RAdd(Sum(SubSeq(vals, 1, Len(vals) - 1)), vals[Len(vals)])

\* A faulty variant of nanmean: the first cell stands for the whole column.
FirstCell(vals) ==
    LET v == NotNaN(vals)
    IN IF Len(v) = 0 THEN NaN ELSE v[1]

\* The mean of one column, NaN cells skipped; NaN when nothing is left.
nanmean(vals) ==
    LET v == NotNaN(vals)
    IN IF Len(v) = 0 THEN NaN ELSE RDivInt(Sum(v), Len(v))

\* The variance of one column with ddof delta degrees of freedom.
nanvar(vals, ddof) ==
    LET v == NotNaN(vals)
        count == Len(v)
    IN IF count <= ddof THEN NaN
       ELSE LET avg == RDivInt(Sum(v), count)
                sqr == Sum([i \in 1..count |-> RMul(RSub(avg, v[i]), RSub(avg, v[i]))])
            IN RDivInt(sqr, count - ddof)

\* x.mean(axis=0)
FrameMean(x) == [c \in 1..Len(x.columns) |-> nanmean(Column(x, c))]

\* x.std(axis=0): ddof = 1 is the default.
FrameStd(x) == [c \in 1..Len(x.columns) |-> Sqrt(nanvar(Column(x, c), 1))]

\* x.loc['Mean'] = x.mean(axis=0)
WithMean(x) == SetRow(x, "Mean", FrameMean(x))

\* x.loc['SD'] = x.std(axis=0)
WithSD(x) == SetRow(x, "SD", FrameStd(x))

\* The working copy of one group: its rows, then the 'Mean' and the 'SD' row.
GroupFrame(df, keys) == WithSD(WithMean(Loc(df, keys)))

Sheet(name, frame) == [name |-> name, frame |-> frame]

---------------------------------------------------------------------------
\* State

VARIABLES
    pc,               \* the statement main is at
    xlsx_data_file,   \* args.xlsx_data_file: the path given with -d
    file_state,       \* "readable", "missing" or "denied": what opening the path gives
    file_table,       \* the rows of the spreadsheet at the path
    args_xlsx_data,   \* args.xlsx_data
    parse_ret,        \* the return code of parse_cmdline, <<>> before it returns
    ret,              \* the value main returned, <<>> before it returns
    stderr,           \* the lines written to sys.stderr
    stdout,           \* the lines written to sys.stdout
    calls,            \* the functions entered so far in this run, in order
    fname,            \* the output base name
    data_frame,       \* data_process_analysis's data_frame
    groups,           \* groups: the four sets of row labels
    gi,               \* the index i of the loop over the groups, from 1
    sheets,           \* the sheets handed to the ExcelWriter, in order
    saved,            \* how often writer.save() ran in this run
    disk,             \* the output files that exist
    means_df,         \* means_df
    sd_df,            \* sd_df
    fault,            \* the exception that ended the run, if any
    run,              \* 1 in the first call of main, 2 in the second
    prev_means,       \* means_df as the first call returned it
    prev_sd           \* sd_df as the first call returned it

vars == <<pc, xlsx_data_file, file_state, file_table, args_xlsx_data, parse_ret, ret,
          stderr, stdout, calls, fname, data_frame, groups, gi, sheets, saved, disk,
          means_df, sd_df, fault, run, prev_means, prev_sd>>

input == <<xlsx_data_file, file_state, file_table>>

NoFault == [line |-> 0, error |-> ""]

\* What a call of main starts from: nothing of an earlier call but the files on disk.
Fresh ==
    /\ pc = "main"
    /\ args_xlsx_data = NoFrame
    /\ parse_ret = <<>>
    /\ ret = <<>>
    /\ stderr = <<>>
    /\ stdout = <<>>
    /\ calls = <<>>
    /\ fname = ""
    /\ data_frame = NoFrame
    /\ groups = NoGroups
    /\ gi = 0
    /\ sheets = <<>>
    /\ saved = 0
    /\ means_df = NoFrame
    /\ sd_df = NoFrame
    /\ fault = NoFault

Init ==
    /\ Fresh
    /\ \/ /\ xlsx_data_file = DEF_DATA_FILE
          /\ file_state = "readable"
          /\ file_table \in Tables
       \/ /\ xlsx_data_file = "ghost.xlsx"
          /\ file_state = "missing"
          /\ file_table = <<>>
       \/ /\ xlsx_data_file = DEF_DATA_FILE
          /\ file_state = "denied"
          /\ file_table \in {t \in Tables : Len(t) <= 1}
    /\ disk = {}
    /\ run = 1
    /\ prev_means = NoFrame
    /\ prev_sd = NoFrame

---------------------------------------------------------------------------
\* parse_cmdline

\* str(e) of the IOError that opening the path raises.
IOErrorText(state, path) ==
    IF state = "missing" THEN "[Errno 2] No such file or directory: '" \o path \o "'"
    ELSE "[Errno 13] Permission denied: '" \o path \o "'"

\* warning(*objs): print("WARNING: ", *objs, file=sys.stderr)
warning(a, b) == "WARNING:  " \o a \o " " \o b

\* The file is read: parse_cmdline returns (args, SUCCESS).
ParseCmdline ==
    /\ pc = "main"
    /\ file_state = "readable"
    /\ args_xlsx_data' = read_excel(file_table)
    /\ parse_ret' = <<SUCCESS>>
    /\ calls' = calls \o <<"main", "parse_cmdline">>
    /\ pc' = "main_ret"
    /\ UNCHANGED <<input, ret, stderr, stdout, fname, data_frame, groups, gi, sheets,
                   saved, disk, means_df, sd_df, fault, run, prev_means, prev_sd>>

\* read_excel raises IOError: the warning, the help, and (args, IO_ERROR).
ParseCmdlineIOError ==
    /\ pc = "main"
    /\ file_state # "readable"
    /\ stderr' = Append(stderr, warning("Problems reading file:",
                                        IOErrorText(file_state, xlsx_data_file)))
    /\ stdout' = Append(stdout, "usage: data_proc.py [-h] [-d XLSX_DATA_FILE] [-f FIG_DIM] [-s FONT_SIZE] [-g GRID_BOOL]")
    /\ parse_ret' = <<IO_ERROR>>
    /\ calls' = calls \o <<"main", "parse_cmdline">>
    /\ pc' = "main_ret"
    /\ UNCHANGED <<input, args_xlsx_data, ret, fname, data_frame, groups, gi, sheets,
                   saved, disk, means_df, sd_df, fault, run, prev_means, prev_sd>>

---------------------------------------------------------------------------
\* main

\* A faulty variant of MainStops: the return code of parse_cmdline is ignored.
MainNeverStops(code) == FALSE

\* if ret != SUCCESS
MainStops(code) == code # SUCCESS

\* if ret != SUCCESS: return ret
MainReturnError ==
    /\ pc = "main_ret"
    /\ MainStops(parse_ret[1])
    /\ ret' = parse_ret
    /\ pc' = "done"
    /\ UNCHANGED <<input, args_xlsx_data, parse_ret, stderr, stdout, calls, fname,
                   data_frame, groups, gi, sheets, saved, disk, means_df, sd_df, fault,
                   run, prev_means, prev_sd>>

\* fname is set and data_process_analysis is entered.
MainCallAnalysis ==
    /\ pc = "main_ret"
    /\ ~MainStops(parse_ret[1])
    /\ fname' = splitext_root(basename(xlsx_data_file))
    /\ calls' = Append(calls, "data_process_analysis")
    /\ pc' = "dpa_filter"
    /\ UNCHANGED <<input, args_xlsx_data, parse_ret, ret, stderr, stdout, data_frame,
                   groups, gi, sheets, saved, disk, means_df, sd_df, fault, run,
                   prev_means, prev_sd>>

---------------------------------------------------------------------------
\* data_process_analysis

\* Step 1: the phylogenetic groups absent in all samples are removed.
RemoveAbsentColumns ==
    /\ pc = "dpa_filter"
    /\ data_frame' = DropZeroColumns(args_xlsx_data)
    /\ pc' = "dpa_classify"
    /\ UNCHANGED <<input, args_xlsx_data, parse_ret, ret, stderr, stdout, calls, fname,
                   groups, gi, sheets, saved, disk, means_df, sd_df, fault, run,
                   prev_means, prev_sd>>

\* The lists after the two nested loops.
classify(df) == OuterLoop(EmptyLists, df, 1)

\* Step 2: the two nested loops over rows and columns, and the groups dictionary.
Classify ==
    /\ pc = "dpa_classify"
    /\ groups' = MakeGroups(classify(data_frame))
    /\ pc' = "dpa_writer"
    /\ UNCHANGED <<input, args_xlsx_data, parse_ret, ret, stderr, stdout, calls, fname,
                   data_frame, gi, sheets, saved, disk, means_df, sd_df, fault, run,
                   prev_means, prev_sd>>

output == fname \o "_processed.xlsx"

\* The writer is opened, the 'data' sheet written, the two result tables created.
OpenWriter ==
    /\ pc = "dpa_writer"
    /\ sheets' = <<Sheet("data", data_frame)>>
    /\ means_df' = EmptyFrame(data_frame.columns)
    /\ sd_df' = EmptyFrame(data_frame.columns)
    /\ gi' = 1
    /\ pc' = "dpa_groups"
    /\ UNCHANGED <<input, args_xlsx_data, parse_ret, ret, stderr, stdout, calls, fname,
                   data_frame, groups, saved, disk, fault, run, prev_means, prev_sd>>

\* A faulty variant of GroupSheet: the sheet is written before the 'Mean' and 'SD'
\* rows are added.
SheetBeforeStats(label, x) ==
    Sheet(label, Frame(SubSeq(x.index, 1, Len(x.index) - 2), x.columns,
                       SubSeq(x.values, 1, Len(x.values) - 2)))

\* The sheet written for a group's working copy.
GroupSheet(label, x) == Sheet(label, x)

\* One pass of the loop over the groups, the set iterated in some order.
GroupStep ==
    /\ pc = "dpa_groups"
    /\ gi <= Len(groups_list)
    /\ LET label == groups_list[gi]
       IN \E keys \in Orders(groups[label]) :
            /\ ~EnlargeRaises(Loc(data_frame, keys))
            /\ LET x == GroupFrame(data_frame, keys)
               IN /\ sheets' = Append(sheets, GroupSheet(label, x))
                  /\ means_df' = SetRow(means_df, label, RowOf(x, "Mean"))
                  /\ sd_df' = SetRow(sd_df, label, RowOf(x, "SD"))
    /\ gi' = gi + 1
    /\ UNCHANGED <<input, args_xlsx_data, parse_ret, ret, stderr, stdout, calls, fname,
                   data_frame, groups, saved, disk, fault, run, prev_means, prev_sd, pc>>

\* x.loc['Mean'] = x.mean(axis=0) raises: the exception is never caught.
GroupStepRaises ==
    /\ pc = "dpa_groups"
    /\ gi <= Len(groups_list)
    /\ \E keys \in Orders(groups[groups_list[gi]]) : EnlargeRaises(Loc(data_frame, keys))
    /\ fault' = [line |-> 93, error |-> "ValueError"]
    /\ pc' = "fault"
    /\ UNCHANGED <<input, args_xlsx_data, parse_ret, ret, stderr, stdout, calls, fname,
                   data_frame, groups, gi, sheets, saved, disk, means_df, sd_df, run,
                   prev_means, prev_sd>>

\* writer.save(), the message, and the return of the two tables.
SaveWriter ==
    /\ pc = "dpa_groups"
    /\ gi > Len(groups_list)
    /\ saved' = saved + 1
    /\ disk' = disk \cup {output}
    /\ stdout' = Append(stdout, "Wrote file: " \o output)
    /\ pc' = "plot"
    /\ UNCHANGED <<input, args_xlsx_data, parse_ret, ret, stderr, calls, fname,
                   data_frame, groups, gi, sheets, means_df, sd_df, fault, run,
                   prev_means, prev_sd>>

---------------------------------------------------------------------------
\* plot_data, and the end of main

PlotData ==
    /\ pc = "plot"
    /\ calls' = Append(calls, "plot_data")
    /\ disk' = disk \cup {fname \o ".png"}
    /\ stdout' = Append(stdout, "Wrote file: " \o fname \o ".png")
    /\ pc' = "main_end"
    /\ UNCHANGED <<input, args_xlsx_data, parse_ret, ret, stderr, fname, data_frame,
                   groups, gi, sheets, saved, means_df, sd_df, fault, run, prev_means,
                   prev_sd>>

\* return SUCCESS
MainReturn ==
    /\ pc = "main_end"
    /\ ret' = <<SUCCESS>>
    /\ pc' = "done"
    /\ UNCHANGED <<input, args_xlsx_data, parse_ret, stderr, stdout, calls, fname,
                   data_frame, groups, gi, sheets, saved, disk, means_df, sd_df, fault,
                   run, prev_means, prev_sd>>

\* main is called a second time with the same arguments, in the same process.
Rerun ==
    /\ pc = "done"
    /\ run = 1
    /\ run' = 2
    /\ prev_means' = means_df
    /\ prev_sd' = sd_df
    /\ pc' = "main"
    /\ args_xlsx_data' = NoFrame
    /\ parse_ret' = <<>>
    /\ ret' = <<>>
    /\ stderr' = <<>>
    /\ stdout' = <<>>
    /\ calls' = <<>>
    /\ fname' = ""
    /\ data_frame' = NoFrame
    /\ groups' = NoGroups
    /\ gi' = 0
    /\ sheets' = <<>>
    /\ saved' = 0
    /\ means_df' = NoFrame
    /\ sd_df' = NoFrame
    /\ fault' = NoFault
    /\ UNCHANGED <<input, disk>>

Next ==
    \/ ParseCmdline
    \/ ParseCmdlineIOError
    \/ MainReturnError
    \/ MainCallAnalysis
    \/ RemoveAbsentColumns
    \/ Classify
    \/ OpenWriter
    \/ GroupStep
    \/ GroupStepRaises
    \/ SaveWriter
    \/ PlotData
    \/ MainReturn
    \/ Rerun

Spec == Init /\ [][Next]_vars

---------------------------------------------------------------------------
\* Vocabulary of the properties

GroupNames == {"control", "low", "medium", "high"}

\* data_process_analysis has returned its two tables in this call of main.
Returned == pc \in {"plot", "main_end"} \/ (pc = "done" /\ ret = <<SUCCESS>>)

\* The classification loop has run in this call of main.
Classified == pc \in {"dpa_writer", "dpa_groups", "fault"} \/ Returned

\* The all-zero columns have been removed in this call of main.
Filtered == pc = "dpa_classify" \/ Classified

Called(f) == f \in Range(calls)

\* The rule of a group, as the specification words it.
Matches(rule, label) ==
    IF rule = "control" THEN Contains("control", label)
    ELSE Contains(rule, label) /\ Contains("treated", label)

RuleOrder == <<"control", "low", "medium", "high">>

\* The first rule, in the fixed order, that a label matches; "none" without one.
FirstMatch(label) ==
    LET hits == {k \in 1..Len(RuleOrder) : Matches(RuleOrder[k], label)}
    IN IF hits = {} THEN "none"
       ELSE RuleOrder[CHOOSE k \in hits : \A m \in hits : k <= m]

InputLabels == {file_table[i].label : i \in 1..Len(file_table)}

\* The rows of the filtered table whose label is in the set of group g.
RowsOf(g) == {i \in 1..Len(data_frame.index) : data_frame.index[i] \in groups[g]}

\* The sum over the rows S of the filtered table of the cells of column c.
RECURSIVE SumOver(_, _)
SumOver(S, c) ==
    IF S = {} THEN Q(0)
    ELSE LET i == CHOOSE i \in S : TRUE
         IN RAdd(data_frame.values[i][c], SumOver(S \ {i}, c))

\* The sum over the rows S of the squared deviations of column c from m.
RECURSIVE SumSqDev(_, _, _)
SumSqDev(S, c, m) ==
    IF S = {} THEN Q(0)
    ELSE LET i == CHOOSE i \in S : TRUE
             d == RSub(data_frame.values[i][c], m)
         IN RAdd(RMul(d, d), SumSqDev(S \ {i}, c, m))

RLe(a, b) == a.num * b.den <= b.num * a.den
RLt(a, b) == a.num * b.den < b.num * a.den

\* s is the square root of v to three decimals: s^2 <= v < (s + 0.001)^2.
IsRootOf(s, v) ==
    /\ ~IsNaN(s)
    /\ RLe(Q(0), s)
    /\ RLe(RMul(s, s), v)
    /\ RLt(v, RMul(RAdd(s, Norm(1, 1000)), RAdd(s, Norm(1, 1000))))

HasSheet(name) == \E k \in 1..Len(sheets) : sheets[k].name = name
SheetOf(name) == sheets[CHOOSE k \in 1..Len(sheets) : sheets[k].name = name].frame

HasRow(df, key) == \E i \in 1..Len(df.index) : df.index[i] = key

AllNaN(row) == \A c \in 1..Len(row) : IsNaN(row[c])

\* The positions of the input columns with a non-zero cell, in their order.
NonZeroCols ==
    SelectSeq(Indices(Len(Taxa)),
              LAMBDA c : \E i \in 1..Len(file_table) : file_table[i].cells[c].num # 0)

\* Their names.
NonZeroTaxa == [k \in 1..Len(NonZeroCols) |-> Taxa[NonZeroCols[k]]]

\* The input table without its all-zero columns: every row, in the input order.
FilteredInput ==
    Frame([i \in 1..Len(file_table) |-> file_table[i].label], NonZeroTaxa,
          [i \in 1..Len(file_table) |->
              [k \in 1..Len(NonZeroCols) |-> file_table[i].cells[NonZeroCols[k]]]])

SomeGroupEmpty == \E g \in GroupNames : groups[g] = {}

\* How often the row (label, row) is among the first n rows of the frame f.
SampleCount(f, n, label, row) ==
    Cardinality({p \in 1..n : f.index[p] = label /\ f.values[p] = row})

\* f is the rows of group g, in some order, then a 'Mean' and an 'SD' row.
IsGroupSheet(f, g) ==
    LET n == Len(f.index) - 2
    IN /\ n = Cardinality(RowsOf(g))
       /\ f.index[n + 1] = "Mean"
       /\ f.index[n + 2] = "SD"
       /\ \A p \in 1..n : f.index[p] \in groups[g]
       /\ \A i \in 1..Len(data_frame.index) :
            SampleCount(f, n, data_frame.index[i], data_frame.values[i]) =
                IF i \in RowsOf(g)
                THEN SampleCount(data_frame, Len(data_frame.index),
                                 data_frame.index[i], data_frame.values[i])
                ELSE 0

---------------------------------------------------------------------------
\* C1. For every group with n >= 1 selected rows, the SD row returned for the
\* group, which is also the SD row of the group's sheet, is per column the sample
\* standard deviation (ddof = 1) of the group's n sample rows: its square is the
\* sum of the squared deviations from their mean divided by n - 1; with a single
\* sample it is NaN or 0.  The 'Mean' row is not counted as a sample.
C1_SampleStdDev ==
    \A g \in GroupNames :
        (HasRow(sd_df, g) /\ HasSheet(g)) =>
            LET rows == RowsOf(g)
                n == Cardinality(rows)
                sd == RowOf(sd_df, g)
            IN /\ n >= 1 => RowOf(SheetOf(g), "SD") = sd
               /\ \A c \in 1..Len(data_frame.columns) :
                    /\ n = 1 => (IsNaN(sd[c]) \/ sd[c] = Q(0))
                    /\ n >= 2 =>
                         LET m == RDivInt(SumOver(rows, c), n)
                         IN IsRootOf(sd[c], RDivInt(SumSqDev(rows, c, m), n - 1))

---------------------------------------------------------------------------
\* C2. For every group with n >= 1 selected rows, the Mean row returned under the
\* group's name is per column the arithmetic mean of the rows whose label is in
\* the group's set: n times the mean is the sum of those rows, every such row
\* counted once (rows sharing a label too) and no other row counted.
C2_GroupMean ==
    \A g \in GroupNames :
        HasRow(means_df, g) =>
            LET rows == RowsOf(g)
                n == Cardinality(rows)
                mean == RowOf(means_df, g)
            IN n >= 1 =>
                 \A c \in 1..Len(data_frame.columns) :
                    /\ ~IsNaN(mean[c])
                    /\ RMul(Q(n), mean[c]) = SumOver(rows, c)

\* The tables are returned for an input with two rows labelled control_1 that
\* differ, and a row that matches no rule.
C2_Witness ==
    /\ Returned
    /\ \E i, j \in 1..Len(file_table) :
         /\ i # j
         /\ file_table[i].label = file_table[j].label
         /\ file_table[i].cells # file_table[j].cells
         /\ file_table[i].label \in groups.control
    /\ \E i \in 1..Len(file_table) : FirstMatch(file_table[i].label) = "none"
    /\ Len(data_frame.columns) >= 2

---------------------------------------------------------------------------
\* C3. For every input table, a table whose columns are all all-zero included,
\* each group's set is exactly the set of row labels whose first matching rule,
\* in the order control, low, medium, high, is that group's.
C3_FirstMatchSets ==
    Classified =>
        \A g \in GroupNames : groups[g] = {l \in InputLabels : FirstMatch(l) = g}

---------------------------------------------------------------------------
\* C4. After the classification loop the four group sets are pairwise disjoint
\* and their union is a subset of the row labels; a row matching no rule is in
\* no group, is in no group's sheet (so in no Mean or SD), and raises nothing.
C4_DisjointGroups ==
    Classified =>
        /\ \A g, h \in GroupNames : g # h => groups[g] \cap groups[h] = {}
        /\ \A g \in GroupNames : groups[g] \subseteq InputLabels
        /\ \A l \in InputLabels :
             FirstMatch(l) = "none" =>
                /\ \A g \in GroupNames : l \notin groups[g]
                /\ \A k \in 1..Len(sheets) :
                     sheets[k].name \in GroupNames => ~HasRow(sheets[k].frame, l)
        /\ fault # NoFault => Len(data_frame.columns) = 0

\* The tables are returned for an input with a row matching no rule and a row
\* matching two rules.
C4_Witness ==
    /\ Returned
    /\ \E l \in InputLabels : FirstMatch(l) = "none"
    /\ \E l \in InputLabels : Cardinality({g \in GroupNames : Matches(g, l)}) >= 2
    /\ \E g \in GroupNames : Cardinality(RowsOf(g)) >= 2

---------------------------------------------------------------------------
\* C5. An all-zero column is removed before any row is classified and is a
\* column of no output: the 'data' sheet, the group sheets and the two returned
\* tables have exactly the columns with a non-zero cell, in their original order.
C5_ZeroColumnsDropped ==
    /\ ~Filtered => groups = NoGroups
    /\ Filtered =>
         /\ data_frame.columns = NonZeroTaxa
         /\ \A k \in 1..Len(sheets) : sheets[k].frame.columns = NonZeroTaxa
         /\ gi >= 1 => (means_df.columns = NonZeroTaxa /\ sd_df.columns = NonZeroTaxa)
         /\ \A k \in 1..Len(sheets) :
              \A i \in 1..Len(sheets[k].frame.values) :
                 Len(sheets[k].frame.values[i]) = Len(NonZeroTaxa)
         /\ \A i \in 1..Len(means_df.values) : Len(means_df.values[i]) = Len(NonZeroTaxa)
         /\ \A i \in 1..Len(sd_df.values) : Len(sd_df.values[i]) = Len(NonZeroTaxa)

\* The tables are returned for an input whose first and last column are all-zero
\* and whose second is not.
C5_Witness ==
    /\ Returned
    /\ Len(file_table) >= 2
    /\ data_frame.columns = <<Taxa[2]>>
    /\ means_df.columns = <<Taxa[2]>>

---------------------------------------------------------------------------
\* C6. When the input path cannot be opened, main returns IO_ERROR (2, distinct
\* from SUCCESS), the line written to the error stream contains the path, and
\* neither data_process_analysis nor plot_data is ever entered: no sheet, no
\* spreadsheet, no image.  When the file is read and the pipeline completes,
\* main returns 0.
C6_IOErrorStopsRun ==
    /\ file_state # "readable" =>
         /\ ~Called("data_process_analysis")
         /\ ~Called("plot_data")
         /\ sheets = <<>>
         /\ saved = 0
         /\ disk = {}
         /\ pc = "done" =>
              /\ ret = <<IO_ERROR>>
              /\ ret # <<SUCCESS>>
              /\ Len(stderr) = 1
              /\ Contains(xlsx_data_file, stderr[1])
    /\ (file_state = "readable" /\ pc = "done") => (ret = <<SUCCESS>> /\ SUCCESS = 0)

\* main has returned for the path ghost.xlsx, which does not exist.
C6_Witness ==
    /\ pc = "done"
    /\ file_state = "missing"
    /\ xlsx_data_file = "ghost.xlsx"
    /\ ret = <<IO_ERROR>>
    /\ Contains("ghost.xlsx", stderr[1])

---------------------------------------------------------------------------
\* C7. When data_process_analysis returns, means_df and sd_df each have exactly
\* the four rows 'control', 'low', 'medium', 'high', in that order, and one
\* column per column of the filtered table; the row keyed by a group holds the
\* Mean (the SD) row computed for that group, the one of its sheet.
C7_FourRowsPerTable ==
    Returned =>
        /\ means_df.index = <<"control", "low", "medium", "high">>
        /\ sd_df.index = <<"control", "low", "medium", "high">>
        /\ means_df.columns = data_frame.columns
        /\ sd_df.columns = data_frame.columns
        /\ \A k \in 1..4 :
             /\ Len(means_df.values[k]) = Len(data_frame.columns)
             /\ Len(sd_df.values[k]) = Len(data_frame.columns)
             /\ HasSheet(means_df.index[k])
             /\ means_df.values[k] = RowOf(SheetOf(means_df.index[k]), "Mean")
             /\ sd_df.values[k] = RowOf(SheetOf(sd_df.index[k]), "SD")

\* The tables are returned for an input in which every group has a sample: the
\* four Mean rows differ from one another and none is NaN.
C7_Witness ==
    /\ Returned
    /\ Len(data_frame.columns) = 2
    /\ \A g \in GroupNames : groups[g] # {}
    /\ Cardinality({means_df.values[k] : k \in 1..Len(means_df.values)}) = 4
    /\ \A k \in 1..Len(means_df.values) : ~AllNaN(means_df.values[k])

---------------------------------------------------------------------------
\* C8. On a successful run the spreadsheet holds exactly the five sheets 'data',
\* 'control', 'low', 'medium', 'high', written in that order and saved once,
\* after the last group.  'data' is the whole filtered table; a group's sheet is
\* exactly the group's sample rows, then one 'Mean' and one 'SD' row.
C8_FiveSheets ==
    /\ saved = 0 => (disk = {} \/ run = 2)
    /\ saved # 0 =>
         /\ saved = 1
         /\ Returned
         /\ output \in disk
         /\ [k \in 1..Len(sheets) |-> sheets[k].name] =
                <<"data", "control", "low", "medium", "high">>
         /\ sheets[1].frame = FilteredInput
         /\ \A k \in 2..5 : IsGroupSheet(sheets[k].frame, sheets[k].name)

\* The spreadsheet is saved for an input with two control rows and a row that
\* matches no rule.
C8_Witness ==
    /\ saved = 1
    /\ pc = "done"
    /\ Cardinality(RowsOf("control")) = 2
    /\ \E l \in InputLabels : FirstMatch(l) = "none"
    /\ output = "OTU_data_processed.xlsx"

---------------------------------------------------------------------------
---------------------------------------------------------------------------
\* C10, as claimed. When a group has no matching row, the run ends in a fault at
\* the selection of the group's rows (line 92): no tables are returned, the
\* spreadsheet is never saved and plot_data is never called.
C10_EmptyGroupFaults ==
    (Classified /\ SomeGroupEmpty) =>
        /\ ~Returned
        /\ saved = 0
        /\ ~Called("plot_data")
        /\ pc \notin {"plot", "main_end", "done"}

\* C10, amended. When a group has no matching row there is no guard and the
\* selection gives an empty frame without a fault.  With at least one column
\* left, the group's sheet holds only a 'Mean' and an 'SD' row, both NaN in every
\* column, as are the group's rows of the returned tables; the run goes on, the
\* spreadsheet is saved once, plot_data is called and main returns SUCCESS.  Only
\* with no column left does the run fault, at the 'Mean' row of the first group
\* (line 93): then nothing is returned or saved and plot_data is never called.
C10_EmptyGroupGivesNaN ==
    (Classified /\ SomeGroupEmpty) =>
        /\ Len(data_frame.columns) > 0 =>
             /\ fault = NoFault
             /\ pc # "fault"
             /\ (pc = "dpa_groups" /\ gi <= Len(groups_list)) =>
                  \A keys \in Orders(groups[groups_list[gi]]) :
                     ~EnlargeRaises(Loc(data_frame, keys))
             /\ pc = "done" =>
                  (ret = <<SUCCESS>> /\ saved = 1 /\ Called("plot_data")
                   /\ Len(means_df.index) = 4 /\ Len(sd_df.index) = 4)
             /\ \A g \in GroupNames :
                  (groups[g] = {} /\ HasRow(means_df, g)) =>
                     /\ AllNaN(RowOf(means_df, g))
                     /\ AllNaN(RowOf(sd_df, g))
                     /\ SheetOf(g).index = <<"Mean", "SD">>
        /\ Len(data_frame.columns) = 0 =>
             /\ pc \in {"dpa_writer", "dpa_groups", "fault"}
             /\ pc = "dpa_groups" => gi = 1
             /\ pc = "fault" =>
                  /\ fault = [line |-> 93, error |-> "ValueError"]
                  /\ gi = 1
                  /\ means_df.index = <<>>
                  /\ ret = <<>>
             /\ saved = 0
             /\ ~Called("plot_data")

\* main has returned SUCCESS for an input with an empty group and a group of
\* two rows.
C10_Witness ==
    /\ pc = "done"
    /\ ret = <<SUCCESS>>
    /\ groups.medium = {}
    /\ Cardinality(RowsOf("control")) = 2
    /\ AllNaN(RowOf(means_df, "medium"))
    /\ ~AllNaN(RowOf(means_df, "control"))

\* The run has faulted on an input whose columns are all all-zero.
C10_WitnessNoColumn ==
    /\ pc = "fault"
    /\ Len(file_table) >= 1
    /\ Len(data_frame.columns) = 0

====
